---- MODULE Spec2Model ----
(***************************************************************************)
(* Model of the ABCI++ oracle demo: the proposal handler (PrepareProposal, *)
(* ProcessProposal, computeStakeWeightedOraclePrices), the faux oracle     *)
(* keeper, and the vote-extension handler (ExtendVote with its provider    *)
(* tasks and the ProviderAggregator).                                      *)
(***************************************************************************)
EXTENDS Integers, Sequences, FiniteSets, TLC

VARIABLES
    \* ---- proposal handler (ProposalHandler, FauxOracleKeeper) ----
    propPhase,            \* "init" | "prepared" | "processed": last handler call
    commitInfo,           \* req.LocalLastCommit of the last PrepareProposal call
    proposalTxs,          \* the transaction list in flight (Prepare's answer or a proposer's own)
    fromPrepare,          \* TRUE iff proposalTxs is what PrepareProposal returned for commitInfo
    prepareOutcome,       \* "none" | "returned" | "panic"
    processStatus,        \* "none" | "ACCEPT" | "REJECT" | "panic"
    stakeWeightedPrices,  \* what computeStakeWeightedOraclePrices gave the last handler call
    fauxOracleKeeper,     \* h.fauxOracleKeeper: [prices |-> base -> Dec]
    setOraclePricesArgs,  \* arguments of the SetOraclePrices calls of the last ProcessProposal
    \* ---- vote-extension handler (VoteExtHandler) ----
    providerPairs,        \* h.providerPairs: provider name -> list of pairs (h.providers has the same names)
    currentBlock,         \* h.currentBlock
    lastPriceSyncTS,      \* h.lastPriceSyncTS, as the number of syncs started
    computedPrices,       \* h.computedPrices: height -> prices
    evPc,                 \* ExtendVote: "idle" | "launch" | "wait" | "done"
    reqHeight,            \* req.Height of the running ExtendVote call
    toLaunch,             \* providers the range loop has not visited yet
    providerName,         \* loop variable of the range loop (one variable for all iterations)
    currencyPairs,        \* loop variable of the range loop (one variable for all iterations)
    requiredRates,        \* set of required bases
    providerAgg,          \* the ProviderAggregator of this call
    taskPc,               \* per launched task: "none" | "queued" | "select" | "merge" | "settled"
    taskResult,           \* per task: "none" | "ok" | "error" | "timeout" | "nodata"
    mergePairs,           \* per task: the list the merge loop ranges over
    mergeIdx,             \* per task: position of the merge loop
    fetchPc,              \* per fetch goroutine: "none" | "ticker" | "errsend1" | "candles" | "errsend2" | "donesend" | "exit"
    fetchedPrices,        \* per task: the closure variable prices
    fetchedCandles,       \* per task: the closure variable candles
    fetchErr,             \* per task: the closure variable err (TRUE: non-nil)
    errCh,                \* per task: number of errors buffered in errCh (capacity 1)
    doneCh,               \* per task: number of values buffered in doneCh (capacity 1)
    extendResp,           \* what ExtendVote returned: [returned, payload, bz]
    \* ---- VerifyVoteExtension ----
    verifyReq,            \* the last RequestVerifyVoteExtension: [called, Height, VoteExtension]
    verifyResp,           \* what it returned: [status, err]
    \* ---- concurrent callers of one ProviderAggregator ----
    aggregator,           \* the ProviderAggregator the callers share
    mtx,                  \* p.mtx: "free" or the caller that holds it
    callerArgs,           \* per caller: [prices, candles, pairs], the arguments of its calls
    callerPc,             \* per caller: "call" | "locked" | "candles" | "store" | "done"
    callerIdx,            \* per caller: the pair of its next call
    callerRet             \* per caller: the values its calls returned, in order

propVars == <<propPhase, commitInfo, proposalTxs, fromPrepare, prepareOutcome,
              processStatus, stakeWeightedPrices, fauxOracleKeeper, setOraclePricesArgs>>

extVars == <<providerPairs, currentBlock, lastPriceSyncTS, computedPrices, evPc, reqHeight,
             toLaunch, providerName, currencyPairs, requiredRates, providerAgg, taskPc,
             taskResult, mergePairs, mergeIdx, fetchPc, fetchedPrices, fetchedCandles,
             fetchErr, errCh, doneCh, extendResp>>

verVars == <<verifyReq, verifyResp>>

aggVars == <<aggregator, mtx, callerArgs, callerPc, callerIdx, callerRet>>

vars == <<propVars, extVars, verVars, aggVars>>

(***************************************************************************)
(* Bounds of the model.                                                    *)
(***************************************************************************)
\* largest number of votes in a commit-info
MaxVotes == 3
\* decimal digits kept by a Dec in the model (sdk.Dec keeps 18)
DecPrecision == 2

(***************************************************************************)
(* sdk.Dec: a fixed-point decimal, an integer scaled by 10^precision.      *)
(* Prices and voting powers are non-negative here, so big.Int's truncated  *)
(* quotient is \div.                                                       *)
(***************************************************************************)
OneDec == 10 ^ DecPrecision

ZeroDec == 0

Add(d1, d2) == d1 + d2

MulInt64(d, i) == d * i

\* big.Int.Quo: truncated quotient; the caller guards i # 0 (Quo panics on 0)
QuoInt64(d, i) == d \div i

\* A Go map that is nil (reads like an empty map).
NilMap == [b \in {} |-> ZeroDec]

(***************************************************************************)
(* JSON forms.  A Dec travels as its decimal string: integer part and      *)
(* fraction digits.                                                        *)
(***************************************************************************)
FormatDec(d) == [int |-> d \div OneDec, frac |-> d % OneDec]

ParseDec(s) == s.int * OneDec + s.frac

\* byte payloads: kind "json" is a well-formed JSON object, "empty" the
\* zero-length payload, "garbage" any other bytes json.Unmarshal refuses
EmptyBytes == [kind |-> "empty", Height |-> 0, Prices |-> NilMap]

GarbageBytes == [kind |-> "garbage", Height |-> 0, Prices |-> NilMap]

\* json.Marshal(OracleVoteExtension{Height, Prices})
MarshalVoteExt(voteExt) ==
    [kind   |-> "json",
     Height |-> voteExt.Height,
     Prices |-> [b \in DOMAIN voteExt.Prices |-> FormatDec(voteExt.Prices[b])]]

\* json.Unmarshal(bz, &voteExt)
UnmarshalVoteExt(bz) ==
    IF bz.kind # "json"
    THEN [err |-> TRUE, voteExt |-> [Height |-> 0, Prices |-> NilMap]]
    ELSE [err |-> FALSE,
          voteExt |-> [Height |-> bz.Height,
                       Prices |-> [b \in DOMAIN bz.Prices |-> ParseDec(bz.Prices[b])]]]

\* the empty abci.ExtendedCommitInfo
NoCommitInfo == [Votes |-> <<>>]

\* json.Marshal(StakeWeightedPrices{StakeWeightedPrices, ExtendedCommitInfo})
MarshalInjectedTx(prices, ci) ==
    [kind |-> "json",
     StakeWeightedPrices |-> [b \in DOMAIN prices |-> FormatDec(prices[b])],
     ExtendedCommitInfo |-> ci]

\* a proposal entry that is no JSON object (an ordinary transaction)
GarbageTx == [kind |-> "garbage", StakeWeightedPrices |-> NilMap,
              ExtendedCommitInfo |-> NoCommitInfo]

\* json.Unmarshal(req.Txs[0], &injectedVoteExtTx)
UnmarshalInjectedTx(bz) ==
    IF bz.kind # "json"
    THEN [err |-> TRUE, StakeWeightedPrices |-> NilMap, ExtendedCommitInfo |-> NoCommitInfo]
    ELSE [err |-> FALSE,
          StakeWeightedPrices |->
              [b \in DOMAIN bz.StakeWeightedPrices |-> ParseDec(bz.StakeWeightedPrices[b])],
          ExtendedCommitInfo |-> bz.ExtendedCommitInfo]

(***************************************************************************)
(* FauxOracleKeeper                                                        *)
(***************************************************************************)
ATOMUSD == [Base |-> "ATOM", Quote |-> "USD"]

OSMOUSD == [Base |-> "OSMO", Quote |-> "USD"]

\* CurrencyPair.String
PairString(cp) == cp.Base \o cp.Quote

GetSupportedPairs == <<ATOMUSD>>

\* SetOraclePrices has a value receiver: `k.prices = prices` assigns to the
\* callee's copy of the keeper, the caller's keeper keeps its fields.
SetOraclePrices(k, prices) ==
    LET callee == [k EXCEPT !.prices = prices]
    IN  [keeper |-> k, calleeCopy |-> callee, err |-> FALSE]

(***************************************************************************)
(* ProposalHandler                                                         *)
(***************************************************************************)
\* faulty variant of the loop: a vote whose extension fails to decode is
\* skipped, the aggregate is that of the remaining votes
RECURSIVE accumulateDecodableVotes(_, _, _, _)
accumulateDecodableVotes(votes, i, running, totalStake) ==
    IF i > Len(votes)
    THEN [err |-> FALSE, prices |-> running, totalStake |-> totalStake]
    ELSE LET v   == votes[i]
             dec == UnmarshalVoteExt(v.VoteExtension)
         IN  IF dec.err
             THEN accumulateDecodableVotes(votes, i + 1, running, totalStake)
             ELSE accumulateDecodableVotes(votes, i + 1,
                      [base \in DOMAIN running |->
                          IF base \in DOMAIN dec.voteExt.Prices
                          THEN Add(running[base],
                                   MulInt64(dec.voteExt.Prices[base], v.Power))
                          ELSE running[base]],
                      totalStake + v.Power)

\* lines 114-137: the loop over ci.Votes, from vote i on, with the running
\* totals so far; it stops at the first vote extension that fails to decode
RECURSIVE accumulateVotes(_, _, _, _)
accumulateVotes(votes, i, running, totalStake) ==
    IF i > Len(votes)
    THEN [err |-> FALSE, prices |-> running, totalStake |-> totalStake]
    ELSE LET v   == votes[i]
             dec == UnmarshalVoteExt(v.VoteExtension)
         IN  IF dec.err
             THEN [err |-> TRUE, prices |-> NilMap, totalStake |-> totalStake]
             ELSE accumulateVotes(votes, i + 1,
                      [base \in DOMAIN running |->
                          IF base \in DOMAIN dec.voteExt.Prices
                          THEN Add(running[base],
                                   MulInt64(dec.voteExt.Prices[base], v.Power))
                          ELSE running[base]],
                      totalStake + v.Power)

\* the supported bases, the keys of the result
SupportedBases == {GetSupportedPairs[k].Base : k \in DOMAIN GetSupportedPairs}

\* the stake of the votes from vote i on whose attestation prices the base
RECURSIVE stakeOfVotesWith(_, _, _)
stakeOfVotesWith(votes, i, base) ==
    IF i > Len(votes) THEN 0
    ELSE (IF base \in DOMAIN UnmarshalVoteExt(votes[i].VoteExtension).voteExt.Prices
          THEN votes[i].Power ELSE 0)
         + stakeOfVotesWith(votes, i + 1, base)

\* faulty variant: divides each base's total by the stake of the votes that priced it
computeDividingByContributingStake(ci) ==
    LET acc == accumulateVotes(ci.Votes, 1, [base \in SupportedBases |-> ZeroDec], 0)
    IN  IF acc.err
        THEN [outcome |-> "err", prices |-> NilMap]
        ELSE IF SupportedBases # {} /\ acc.totalStake = 0
        THEN [outcome |-> "panic", prices |-> NilMap]
        ELSE [outcome |-> "ok",
              prices  |-> [base \in SupportedBases |->
                  IF stakeOfVotesWith(ci.Votes, 1, base) = 0 THEN ZeroDec
                  ELSE QuoInt64(acc.prices[base], stakeOfVotesWith(ci.Votes, 1, base))]]

\* faulty variant of the loop: a vote's weighted price replaces the running
\* total of its base instead of being added to it
RECURSIVE accumulateLastVote(_, _, _, _)
accumulateLastVote(votes, i, running, totalStake) ==
    IF i > Len(votes)
    THEN [err |-> FALSE, prices |-> running, totalStake |-> totalStake]
    ELSE LET v   == votes[i]
             dec == UnmarshalVoteExt(v.VoteExtension)
         IN  IF dec.err
             THEN [err |-> TRUE, prices |-> NilMap, totalStake |-> totalStake]
             ELSE accumulateLastVote(votes, i + 1,
                      [base \in DOMAIN running |->
                          IF base \in DOMAIN dec.voteExt.Prices
                          THEN MulInt64(dec.voteExt.Prices[base], v.Power)
                          ELSE running[base]],
                      totalStake + v.Power)

\* faulty variant: the aggregate of accumulateLastVote
computeFromLastVote(ci) ==
    LET acc == accumulateLastVote(ci.Votes, 1, [base \in SupportedBases |-> ZeroDec], 0)
    IN  IF acc.err
        THEN [outcome |-> "err", prices |-> NilMap]
        ELSE IF SupportedBases # {} /\ acc.totalStake = 0
        THEN [outcome |-> "panic", prices |-> NilMap]
        ELSE [outcome |-> "ok",
              prices  |-> [base \in SupportedBases |->
                              QuoInt64(acc.prices[base], acc.totalStake)]]

\* outcome "ok" (prices, nil), "err" (nil, err) or "panic" (QuoInt64 by zero)
computeStakeWeightedOraclePrices(ci) ==
    LET requiredPairs == GetSupportedPairs
        bases == {requiredPairs[k].Base : k \in DOMAIN requiredPairs}
        acc   == accumulateVotes(ci.Votes, 1, [base \in bases |-> ZeroDec], 0)
    IN  IF acc.err
        THEN [outcome |-> "err", prices |-> NilMap]
        ELSE IF bases # {} /\ acc.totalStake = 0
        THEN [outcome |-> "panic", prices |-> NilMap]
        ELSE [outcome |-> "ok",
              prices  |-> [base \in bases |-> QuoInt64(acc.prices[base], acc.totalStake)]]

\* always nil
compareOraclePrices(p1, p2) == [err |-> FALSE]

\* the computation not reached (empty proposal, undecodable first entry)
NotComputed == [outcome |-> "none", prices |-> NilMap]

\* faulty variant: packages the record with the commit-info short of its last vote
PrepareProposalDroppingVote(ci) ==
    LET r == computeStakeWeightedOraclePrices(ci)
        n == Len(ci.Votes)
        shortCi == [Votes |-> SubSeq(ci.Votes, 1, n - 1)]
    IN  IF r.outcome = "panic" THEN [outcome |-> "panic", Txs |-> <<>>, computed |-> r]
        ELSE IF r.outcome = "err" THEN [outcome |-> "returned", Txs |-> <<>>, computed |-> r]
        ELSE [outcome |-> "returned", Txs |-> <<MarshalInjectedTx(r.prices, shortCi)>>,
              computed |-> r]

\* json.Marshal of the record cannot fail on these types, so its error
\* branch (lines 48-52) is never taken
PrepareProposal(ci) ==
    LET r == computeStakeWeightedOraclePrices(ci)
    IN  IF r.outcome = "panic" THEN [outcome |-> "panic", Txs |-> <<>>, computed |-> r]
        ELSE IF r.outcome = "err" THEN [outcome |-> "returned", Txs |-> <<>>, computed |-> r]
        ELSE [outcome |-> "returned", Txs |-> <<MarshalInjectedTx(r.prices, ci)>>,
              computed |-> r]

\* faulty variant: persists the claimed prices before the recomputation is checked
ProcessProposalPersistingFirst(txs, keeper) ==
    IF Len(txs) = 0
    THEN [status |-> "ACCEPT", keeper |-> keeper, setArgs |-> <<>>, computed |-> NotComputed]
    ELSE LET injectedVoteExtTx == UnmarshalInjectedTx(txs[1])
             r == computeStakeWeightedOraclePrices(injectedVoteExtTx.ExtendedCommitInfo)
             claimed == injectedVoteExtTx.StakeWeightedPrices
         IN  IF injectedVoteExtTx.err
             THEN [status |-> "REJECT", keeper |-> keeper, setArgs |-> <<>>,
                   computed |-> NotComputed]
             ELSE IF r.outcome = "panic"
             THEN [status |-> "panic", keeper |-> SetOraclePrices(keeper, claimed).keeper,
                   setArgs |-> <<claimed>>, computed |-> r]
             ELSE IF r.outcome = "err"
             THEN [status |-> "REJECT", keeper |-> SetOraclePrices(keeper, claimed).keeper,
                   setArgs |-> <<claimed>>, computed |-> r]
             ELSE [status   |-> "ACCEPT",
                   keeper   |-> SetOraclePrices(keeper, claimed).keeper,
                   setArgs  |-> <<claimed>>,
                   computed |-> r]

\* faulty variant: persists the mapping the record claims, once it passed
\* the comparison
ProcessProposalStoringClaimed(txs, keeper) ==
    IF Len(txs) = 0
    THEN [status |-> "ACCEPT", keeper |-> keeper, setArgs |-> <<>>, computed |-> NotComputed]
    ELSE LET injectedVoteExtTx == UnmarshalInjectedTx(txs[1])
             r == computeStakeWeightedOraclePrices(injectedVoteExtTx.ExtendedCommitInfo)
             claimed == injectedVoteExtTx.StakeWeightedPrices
         IN  IF injectedVoteExtTx.err
             THEN [status |-> "REJECT", keeper |-> keeper, setArgs |-> <<>>,
                   computed |-> NotComputed]
             ELSE IF r.outcome = "panic"
             THEN [status |-> "panic", keeper |-> keeper, setArgs |-> <<>>, computed |-> r]
             ELSE IF r.outcome = "err"
             THEN [status |-> "REJECT", keeper |-> keeper, setArgs |-> <<>>, computed |-> r]
             ELSE IF compareOraclePrices(claimed, r.prices).err
             THEN [status |-> "REJECT", keeper |-> keeper, setArgs |-> <<>>, computed |-> r]
             ELSE [status   |-> "ACCEPT",
                   keeper   |-> SetOraclePrices(keeper, claimed).keeper,
                   setArgs  |-> <<claimed>>,
                   computed |-> r]

\* status, the keeper afterwards, and the arguments SetOraclePrices was called with
ProcessProposal(txs, keeper) ==
    IF Len(txs) = 0
    THEN [status |-> "ACCEPT", keeper |-> keeper, setArgs |-> <<>>, computed |-> NotComputed]
    ELSE LET injectedVoteExtTx == UnmarshalInjectedTx(txs[1])
             r == computeStakeWeightedOraclePrices(injectedVoteExtTx.ExtendedCommitInfo)
         IN  IF injectedVoteExtTx.err
             THEN [status |-> "REJECT", keeper |-> keeper, setArgs |-> <<>>,
                   computed |-> NotComputed]
             ELSE IF r.outcome = "panic"
             THEN [status |-> "panic", keeper |-> keeper, setArgs |-> <<>>, computed |-> r]
             ELSE IF r.outcome = "err"
             THEN [status |-> "REJECT", keeper |-> keeper, setArgs |-> <<>>, computed |-> r]
             ELSE IF compareOraclePrices(injectedVoteExtTx.StakeWeightedPrices, r.prices).err
             THEN [status |-> "REJECT", keeper |-> keeper, setArgs |-> <<>>, computed |-> r]
             ELSE [status   |-> "ACCEPT",
                   keeper   |-> SetOraclePrices(keeper, r.prices).keeper,
                   setArgs  |-> <<r.prices>>,
                   computed |-> r]

(***************************************************************************)
(* ProviderAggregator                                                      *)
(***************************************************************************)
\* a Go map with no entries (keys are added with Put)
EmptyMap == [k \in {} |-> 0]

Put(m, k, v) == [x \in DOMAIN m \cup {k} |-> IF x = k THEN v ELSE m[x]]

NewProviderAggregator == [providerPrices |-> EmptyMap, providerCandles |-> EmptyMap]

\* faulty variant: the provider's sub-maps are made anew by every call
SetProviderRemakingSubMaps(agg, name, pricesIn, candlesIn, pair) ==
    LET pp1 == Put(agg.providerPrices, name, EmptyMap)
        pc1 == Put(agg.providerCandles, name, EmptyMap)
        pricesOk  == PairString(pair) \in DOMAIN pricesIn
        pp2 == IF pricesOk
               THEN [pp1 EXCEPT ![name] = Put(@, pair.Base, pricesIn[PairString(pair)])]
               ELSE pp1
        candlesOk == PairString(pair) \in DOMAIN candlesIn
        pc2 == IF candlesOk
               THEN [pc1 EXCEPT ![name] = Put(@, pair.Base, candlesIn[PairString(pair)])]
               ELSE pc1
    IN  [agg |-> [providerPrices |-> pp2, providerCandles |-> pc2],
         ok  |-> pricesOk \/ candlesOk]

\* faulty variant: reports success only when both the price and the candles were stored
SetProviderReturningBoth(agg, name, pricesIn, candlesIn, pair) ==
    LET pp1 == IF name \in DOMAIN agg.providerPrices
               THEN agg.providerPrices ELSE Put(agg.providerPrices, name, EmptyMap)
        pc1 == IF name \in DOMAIN agg.providerCandles
               THEN agg.providerCandles ELSE Put(agg.providerCandles, name, EmptyMap)
        pricesOk  == PairString(pair) \in DOMAIN pricesIn
        pp2 == IF pricesOk
               THEN [pp1 EXCEPT ![name] = Put(@, pair.Base, pricesIn[PairString(pair)])]
               ELSE pp1
        candlesOk == PairString(pair) \in DOMAIN candlesIn
        pc2 == IF candlesOk
               THEN [pc1 EXCEPT ![name] = Put(@, pair.Base, candlesIn[PairString(pair)])]
               ELSE pc1
    IN  [agg |-> [providerPrices |-> pp2, providerCandles |-> pc2],
         ok  |-> pricesOk /\ candlesOk]

\* the whole call, made under p.mtx: the aggregator afterwards and the result
SetProviderTickerPricesAndCandles(agg, name, pricesIn, candlesIn, pair) ==
    LET pp1 == IF name \in DOMAIN agg.providerPrices
               THEN agg.providerPrices ELSE Put(agg.providerPrices, name, EmptyMap)
        pc1 == IF name \in DOMAIN agg.providerCandles
               THEN agg.providerCandles ELSE Put(agg.providerCandles, name, EmptyMap)
        pricesOk  == PairString(pair) \in DOMAIN pricesIn
        pp2 == IF pricesOk
               THEN [pp1 EXCEPT ![name] = Put(@, pair.Base, pricesIn[PairString(pair)])]
               ELSE pp1
        candlesOk == PairString(pair) \in DOMAIN candlesIn
        pc2 == IF candlesOk
               THEN [pc1 EXCEPT ![name] = Put(@, pair.Base, candlesIn[PairString(pair)])]
               ELSE pc1
    IN  [agg |-> [providerPrices |-> pp2, providerCandles |-> pc2],
         ok  |-> pricesOk \/ candlesOk]

(***************************************************************************)
(* VoteExtHandler: configuration and provider answers                      *)
(***************************************************************************)
ProviderNames == {"Binance", "Kraken"}

PairListInputs == {<<>>, <<ATOMUSD>>, <<ATOMUSD, OSMOUSD>>}

\* the configurations of h.providerPairs: any set of providers, each with a list of pairs
ProviderPairsInputs ==
    UNION {[P -> PairListInputs] : P \in SUBSET ProviderNames}

HeightInputs == {100, 101}

\* what a provider may answer to a fetch of `pairs`: an error (nil map), or
\* data for the first k of the requested pairs, each value tagged with the
\* provider that answered and the pair it is for
ProviderAnswers(provider, what, pairs) ==
    {[err |-> TRUE, data |-> EmptyMap]}
    \cup {[err  |-> FALSE,
           data |-> [key \in {PairString(pairs[i]) : i \in 1..k} |->
                        [from |-> provider, what |-> what, pair |-> key]]] :
          k \in 0..Len(pairs)}

\* faulty variant: a zero price for every base, whatever the aggregator holds
computeOraclePricesZeroFilled(agg) ==
    [prices |-> [b \in {"ATOM", "OSMO"} |-> ZeroDec], err |-> FALSE]

\* the stub: named results, never assigned
computeOraclePrices(agg) == [prices |-> NilMap, err |-> FALSE]

\* the stub: always nil
verifyPrices(prices) == [err |-> FALSE]

NoResponse == [returned |-> FALSE, payload |-> FALSE, bz |-> EmptyBytes]

\* faulty variant: the loop over requiredRates is gone
finishExtendVoteUnchecked(height, required, agg) ==
    LET computed == computeOraclePrices(agg)
    IN  IF computed.err
        THEN [returned |-> TRUE, payload |-> FALSE, bz |-> EmptyBytes, cache |-> FALSE,
              prices |-> NilMap]
        ELSE [returned |-> TRUE, payload |-> TRUE,
              bz |-> MarshalVoteExt([Height |-> height, Prices |-> computed.prices]),
              cache |-> TRUE, prices |-> computed.prices]

\* lines 181-218: compute the prices, fail on a required base without a
\* price, else build and encode the vote extension and cache the prices
finishExtendVote(height, required, agg) ==
    LET computed == computeOraclePrices(agg)
    IN  IF computed.err
        THEN [returned |-> TRUE, payload |-> FALSE, bz |-> EmptyBytes, cache |-> FALSE,
              prices |-> NilMap]
        ELSE IF \E base \in required : base \notin DOMAIN computed.prices
        THEN [returned |-> TRUE, payload |-> FALSE, bz |-> EmptyBytes, cache |-> FALSE,
              prices |-> NilMap]
        ELSE [returned |-> TRUE, payload |-> TRUE,
              bz |-> MarshalVoteExt([Height |-> height, Prices |-> computed.prices]),
              cache |-> TRUE, prices |-> computed.prices]

(***************************************************************************)
(* ExtendVote.  The handler runs the range loop over h.providerPairs,      *)
(* handing one task per provider to the errgroup; every task starts a      *)
(* fetch goroutine and selects on doneCh, errCh and the timeout; Wait      *)
(* returns when every task has returned.  providerName and currencyPairs   *)
(* are the loop's variables, one instance for all iterations, read by the  *)
(* closures when they run; priceProvider is declared in the loop body, so  *)
(* every task has its own.  The errgroup is taken by its contract: Go runs  *)
(* the task, a zero Group cancels nothing on error, Wait returns after     *)
(* every task has returned.                                                *)
(***************************************************************************)
VoteExtInit(pp) ==
    /\ providerPairs = pp
    /\ currentBlock = 0
    /\ lastPriceSyncTS = 0
    /\ computedPrices = EmptyMap
    /\ evPc = "idle"
    /\ reqHeight = 0
    /\ toLaunch = {}
    /\ providerName = "none"
    /\ currencyPairs = <<>>
    /\ requiredRates = {}
    /\ providerAgg = NewProviderAggregator
    /\ taskPc = [p \in ProviderNames |-> "none"]
    /\ taskResult = [p \in ProviderNames |-> "none"]
    /\ mergePairs = [p \in ProviderNames |-> <<>>]
    /\ mergeIdx = [p \in ProviderNames |-> 0]
    /\ fetchPc = [p \in ProviderNames |-> "none"]
    /\ fetchedPrices = [p \in ProviderNames |-> EmptyMap]
    /\ fetchedCandles = [p \in ProviderNames |-> EmptyMap]
    /\ fetchErr = [p \in ProviderNames |-> FALSE]
    /\ errCh = [p \in ProviderNames |-> 0]
    /\ doneCh = [p \in ProviderNames |-> 0]
    /\ extendResp = NoResponse

taskVars == <<taskPc, taskResult, mergePairs, mergeIdx>>

fetchVars == <<fetchPc, fetchedPrices, fetchedCandles, fetchErr>>

handlerVars == <<providerPairs, currentBlock, lastPriceSyncTS, computedPrices, evPc,
                 reqHeight, toLaunch, providerName, currencyPairs, requiredRates, extendResp>>

\* lines 105-112: the call starts
ExtendVoteBegin ==
    /\ evPc = "idle"
    /\ \E h \in HeightInputs :
        /\ reqHeight' = h
        /\ currentBlock' = h
    /\ lastPriceSyncTS' = lastPriceSyncTS + 1
    /\ providerAgg' = NewProviderAggregator
    /\ requiredRates' = {}
    /\ toLaunch' = DOMAIN providerPairs
    /\ evPc' = "launch"
    /\ UNCHANGED <<providerPairs, computedPrices, providerName, currencyPairs, extendResp,
                   taskVars, fetchVars, errCh, doneCh, propVars, verVars, aggVars>>

\* lines 114-173: one iteration of the range loop (map order: any provider
\* not visited yet); it assigns the loop variables, adds the bases and
\* hands the task to the group
LaunchProvider(p) ==
    /\ evPc = "launch"
    /\ p \in toLaunch
    /\ providerName' = p
    /\ currencyPairs' = providerPairs[p]
    /\ requiredRates' = requiredRates
                        \cup {providerPairs[p][i].Base : i \in DOMAIN providerPairs[p]}
    /\ taskPc' = [taskPc EXCEPT ![p] = "queued"]
    /\ toLaunch' = toLaunch \ {p}
    /\ UNCHANGED <<providerPairs, currentBlock, lastPriceSyncTS, computedPrices, evPc,
                   reqHeight, extendResp, providerAgg, taskResult, mergePairs, mergeIdx,
                   fetchVars, errCh, doneCh, propVars, verVars, aggVars>>

\* the loop is over: the handler blocks in g.Wait
LoopEnd ==
    /\ evPc = "launch"
    /\ toLaunch = {}
    /\ evPc' = "wait"
    /\ UNCHANGED <<providerPairs, currentBlock, lastPriceSyncTS, computedPrices, reqHeight,
                   toLaunch, providerName, currencyPairs, requiredRates, extendResp,
                   providerAgg, taskVars, fetchVars, errCh, doneCh, propVars, verVars, aggVars>>

\* lines 127-152: the task makes its channels, starts the fetch goroutine
\* and reaches the select
TaskStart(p) ==
    /\ taskPc[p] = "queued"
    /\ taskPc' = [taskPc EXCEPT ![p] = "select"]
    /\ fetchPc' = [fetchPc EXCEPT ![p] = "ticker"]
    /\ UNCHANGED <<handlerVars, providerAgg, taskResult, mergePairs, mergeIdx,
                   fetchedPrices, fetchedCandles, fetchErr, errCh, doneCh, propVars, verVars, aggVars>>

\* line 137: priceProvider.GetTickerPrices(currencyPairs...)
FetchTicker(p) ==
    /\ fetchPc[p] = "ticker"
    /\ \E ans \in ProviderAnswers(p, "ticker", currencyPairs) :
        /\ fetchedPrices' = [fetchedPrices EXCEPT ![p] = ans.data]
        /\ fetchErr' = [fetchErr EXCEPT ![p] = ans.err]
        /\ fetchPc' = [fetchPc EXCEPT ![p] = IF ans.err THEN "errsend1" ELSE "candles"]
    /\ UNCHANGED <<handlerVars, providerAgg, taskVars, fetchedCandles, errCh, doneCh, propVars, verVars, aggVars>>

\* lines 140 and 146: errCh <- err, which blocks while the buffer is full
FetchSendErr(p) ==
    /\ fetchPc[p] \in {"errsend1", "errsend2"}
    /\ errCh[p] = 0
    /\ errCh' = [errCh EXCEPT ![p] = 1]
    /\ fetchPc' = [fetchPc EXCEPT ![p] = IF fetchPc[p] = "errsend1" THEN "candles"
                                                                    ELSE "donesend"]
    /\ UNCHANGED <<handlerVars, providerAgg, taskVars, fetchedPrices, fetchedCandles,
                   fetchErr, doneCh, propVars, verVars, aggVars>>

\* line 143: priceProvider.GetCandlePrices(currencyPairs...)
FetchCandles(p) ==
    /\ fetchPc[p] = "candles"
    /\ \E ans \in ProviderAnswers(p, "candles", currencyPairs) :
        /\ fetchedCandles' = [fetchedCandles EXCEPT ![p] = ans.data]
        /\ fetchErr' = [fetchErr EXCEPT ![p] = ans.err]
        /\ fetchPc' = [fetchPc EXCEPT ![p] = IF ans.err THEN "errsend2" ELSE "donesend"]
    /\ UNCHANGED <<handlerVars, providerAgg, taskVars, fetchedPrices, errCh, doneCh, propVars, verVars, aggVars>>

\* line 149: doneCh <- true
FetchSendDone(p) ==
    /\ fetchPc[p] = "donesend"
    /\ doneCh[p] = 0
    /\ doneCh' = [doneCh EXCEPT ![p] = 1]
    /\ fetchPc' = [fetchPc EXCEPT ![p] = "exit"]
    /\ UNCHANGED <<handlerVars, providerAgg, taskVars, fetchedPrices, fetchedCandles,
                   fetchErr, errCh, propVars, verVars, aggVars>>

\* lines 153-154 and 164: the select takes doneCh; the merge loop starts on
\* the list currencyPairs holds now
SelectDone(p) ==
    /\ taskPc[p] = "select"
    /\ doneCh[p] = 1
    /\ doneCh' = [doneCh EXCEPT ![p] = 0]
    /\ IF Len(currencyPairs) = 0
       THEN /\ taskPc' = [taskPc EXCEPT ![p] = "settled"]
            /\ taskResult' = [taskResult EXCEPT ![p] = "ok"]
       ELSE /\ taskPc' = [taskPc EXCEPT ![p] = "merge"]
            /\ UNCHANGED taskResult
    /\ mergePairs' = [mergePairs EXCEPT ![p] = currencyPairs]
    /\ mergeIdx' = [mergeIdx EXCEPT ![p] = 1]
    /\ UNCHANGED <<handlerVars, providerAgg, fetchVars, errCh, propVars, verVars, aggVars>>

\* lines 156-157: the select takes errCh; the task returns the error
SelectErr(p) ==
    /\ taskPc[p] = "select"
    /\ errCh[p] = 1
    /\ errCh' = [errCh EXCEPT ![p] = 0]
    /\ taskPc' = [taskPc EXCEPT ![p] = "settled"]
    /\ taskResult' = [taskResult EXCEPT ![p] = "error"]
    /\ UNCHANGED <<handlerVars, providerAgg, mergePairs, mergeIdx, fetchVars, doneCh, propVars, verVars, aggVars>>

\* lines 159-160: the timer fired; the task returns the timeout error
SelectTimeout(p) ==
    /\ taskPc[p] = "select"
    /\ taskPc' = [taskPc EXCEPT ![p] = "settled"]
    /\ taskResult' = [taskResult EXCEPT ![p] = "timeout"]
    /\ UNCHANGED <<handlerVars, providerAgg, mergePairs, mergeIdx, fetchVars, errCh, doneCh,
                   propVars, verVars, aggVars>>

\* lines 164-171: one iteration of the merge loop, under the name
\* providerName holds now
MergePair(p) ==
    /\ taskPc[p] = "merge"
    /\ LET r == SetProviderTickerPricesAndCandles(providerAgg, providerName,
                    fetchedPrices[p], fetchedCandles[p], mergePairs[p][mergeIdx[p]])
       IN  /\ providerAgg' = r.agg
           /\ IF ~r.ok
              THEN /\ taskPc' = [taskPc EXCEPT ![p] = "settled"]
                   /\ taskResult' = [taskResult EXCEPT ![p] = "nodata"]
                   /\ UNCHANGED mergeIdx
              ELSE IF mergeIdx[p] = Len(mergePairs[p])
              THEN /\ taskPc' = [taskPc EXCEPT ![p] = "settled"]
                   /\ taskResult' = [taskResult EXCEPT ![p] = "ok"]
                   /\ UNCHANGED mergeIdx
              ELSE /\ mergeIdx' = [mergeIdx EXCEPT ![p] = @ + 1]
                   /\ UNCHANGED <<taskPc, taskResult>>
    /\ UNCHANGED <<handlerVars, mergePairs, fetchVars, errCh, doneCh, propVars, verVars, aggVars>>

\* faulty variant: Wait returns when the first task has returned
WaitReturnsOnFirst ==
    \/ DOMAIN providerPairs = {}
    \/ \E p \in DOMAIN providerPairs : taskPc[p] = "settled"

\* line 175: g.Wait() returns once every task handed to the group has returned
WaitReturns == \A p \in DOMAIN providerPairs : taskPc[p] = "settled"

\* lines 175-218: g.Wait returns once every task has returned; the handler
\* computes the prices and answers
ExtendVoteFinish ==
    /\ evPc = "wait"
    /\ WaitReturns
    /\ LET r == finishExtendVote(reqHeight, requiredRates, providerAgg)
       IN  /\ extendResp' = [returned |-> r.returned, payload |-> r.payload, bz |-> r.bz]
           /\ computedPrices' = IF r.cache THEN Put(computedPrices, reqHeight, r.prices)
                                           ELSE computedPrices
    /\ evPc' = "done"
    /\ UNCHANGED <<providerPairs, currentBlock, lastPriceSyncTS, reqHeight, toLaunch,
                   providerName, currencyPairs, requiredRates, providerAgg, taskVars,
                   fetchVars, errCh, doneCh, propVars, verVars, aggVars>>

ExtendNext ==
    \/ ExtendVoteBegin
    \/ \E p \in ProviderNames : LaunchProvider(p)
    \/ LoopEnd
    \/ \E p \in ProviderNames : TaskStart(p)
    \/ \E p \in ProviderNames : FetchTicker(p)
    \/ \E p \in ProviderNames : FetchSendErr(p)
    \/ \E p \in ProviderNames : FetchCandles(p)
    \/ \E p \in ProviderNames : FetchSendDone(p)
    \/ \E p \in ProviderNames : SelectDone(p)
    \/ \E p \in ProviderNames : SelectErr(p)
    \/ \E p \in ProviderNames : SelectTimeout(p)
    \/ \E p \in ProviderNames : MergePair(p)
    \/ ExtendVoteFinish

ExtendInit == \E pp \in ProviderPairsInputs : VoteExtInit(pp)

(***************************************************************************)
(* VerifyVoteExtension                                                     *)
(***************************************************************************)
\* the fields of the handler the call can reach through h
Handler ==
    [currentBlock |-> currentBlock, lastPriceSyncTS |-> lastPriceSyncTS,
     computedPrices |-> computedPrices]

VerifyRejected(h) == [status |-> "none", err |-> TRUE, handler |-> h]

\* faulty variant: the declared height is not compared with the request's
VerifyVoteExtensionAnyHeight(h, req) ==
    LET dec == UnmarshalVoteExt(req.VoteExtension)
    IN  IF dec.err THEN VerifyRejected(h)
        ELSE IF verifyPrices(dec.voteExt.Prices).err THEN VerifyRejected(h)
        ELSE [status |-> "ACCEPT", err |-> FALSE, handler |-> h]

\* faulty variant: the declared height is compared with h.currentBlock,
\* which the call then moves to the request's height
VerifyVoteExtensionAtCurrentBlock(h, req) ==
    LET dec == UnmarshalVoteExt(req.VoteExtension)
        h2  == [h EXCEPT !.currentBlock = req.Height]
    IN  IF dec.err THEN VerifyRejected(h2)
        ELSE IF dec.voteExt.Height # h.currentBlock THEN VerifyRejected(h2)
        ELSE IF verifyPrices(dec.voteExt.Prices).err THEN VerifyRejected(h2)
        ELSE [status |-> "ACCEPT", err |-> FALSE, handler |-> h2]

\* lines 223-242: the response, and the handler afterwards (no field is assigned)
VerifyVoteExtension(h, req) ==
    LET dec == UnmarshalVoteExt(req.VoteExtension)
    IN  IF dec.err THEN VerifyRejected(h)
        ELSE IF dec.voteExt.Height # req.Height THEN VerifyRejected(h)
        ELSE IF verifyPrices(dec.voteExt.Prices).err THEN VerifyRejected(h)
        ELSE [status |-> "ACCEPT", err |-> FALSE, handler |-> h]

\* the attestations a peer may send: no bytes, bytes that are no JSON, or a
\* well-formed attestation of either height with no price, a supported base,
\* or a supported and an unsupported base
VerifyVoteExtInputs ==
    {EmptyBytes, GarbageBytes}
    \cup {MarshalVoteExt([Height |-> h, Prices |-> m]) :
             h \in HeightInputs,
             m \in {NilMap,
                    [b \in {"ATOM"} |-> 10 * OneDec],
                    [b \in {"ATOM", "OSMO"} |-> IF b = "ATOM" THEN 10 * OneDec
                                                               ELSE 5 * OneDec]}}

NoVerifyRequest == [called |-> FALSE, Height |-> 0, VoteExtension |-> EmptyBytes,
                    ref |-> EmptyMap]

VerifyIdle ==
    /\ verifyReq = NoVerifyRequest
    /\ verifyResp = [status |-> "none", err |-> FALSE]

\* the host asks for the verification of a received vote extension; ref
\* keeps the cache the handler held when it was asked
HostVerifyVoteExtension ==
    \E height \in HeightInputs, bz \in VerifyVoteExtInputs :
        LET req == [Height |-> height, VoteExtension |-> bz]
            r   == VerifyVoteExtension(Handler, req)
        IN  /\ verifyReq' = [called |-> TRUE, Height |-> height, VoteExtension |-> bz,
                             ref |-> computedPrices]
            /\ verifyResp' = [status |-> r.status, err |-> r.err]
            /\ currentBlock' = r.handler.currentBlock
            /\ lastPriceSyncTS' = r.handler.lastPriceSyncTS
            /\ computedPrices' = r.handler.computedPrices
            /\ UNCHANGED <<providerPairs, evPc, reqHeight, toLaunch, providerName,
                           currencyPairs, requiredRates, extendResp, providerAgg, taskVars,
                           fetchVars, errCh, doneCh, propVars, aggVars>>

\* largest number of ExtendVote calls of one handler
MaxSyncs == 2

\* the ExtendVote call has returned: its locals, tasks and channels are gone
\* (a fetch goroutine it left behind reaches nothing of a later call), the
\* handler's fields stay
ExtendVoteReturn ==
    /\ evPc = "done"
    /\ lastPriceSyncTS < MaxSyncs
    /\ evPc' = "idle"
    /\ reqHeight' = 0
    /\ toLaunch' = {}
    /\ providerName' = "none"
    /\ currencyPairs' = <<>>
    /\ requiredRates' = {}
    /\ providerAgg' = NewProviderAggregator
    /\ taskPc' = [p \in ProviderNames |-> "none"]
    /\ taskResult' = [p \in ProviderNames |-> "none"]
    /\ mergePairs' = [p \in ProviderNames |-> <<>>]
    /\ mergeIdx' = [p \in ProviderNames |-> 0]
    /\ fetchPc' = [p \in ProviderNames |-> "none"]
    /\ fetchedPrices' = [p \in ProviderNames |-> EmptyMap]
    /\ fetchedCandles' = [p \in ProviderNames |-> EmptyMap]
    /\ fetchErr' = [p \in ProviderNames |-> FALSE]
    /\ errCh' = [p \in ProviderNames |-> 0]
    /\ doneCh' = [p \in ProviderNames |-> 0]
    /\ extendResp' = NoResponse
    /\ UNCHANGED <<providerPairs, currentBlock, lastPriceSyncTS, computedPrices, propVars,
                   verVars, aggVars>>

(***************************************************************************)
(* Concurrent callers of one ProviderAggregator: one caller per provider   *)
(* name, each calling SetProviderTickerPricesAndCandles once per pair of   *)
(* its list with its own prices and candles.  A call takes p.mtx, runs its *)
(* body and releases p.mtx on return.                                      *)
(***************************************************************************)
ATOMEUR == [Base |-> "ATOM", Quote |-> "EUR"]

\* a pair whose String() is that of ATOMUSD
ATOMUSplit == [Base |-> "ATOMU", Quote |-> "SD"]

CallerPairLists ==
    PairListInputs \cup {<<ATOMUSD, ATOMEUR>>, <<ATOMUSD, ATOMUSplit>>}

CallerKeySets ==
    (SUBSET {PairString(ATOMUSD), PairString(OSMOUSD)})
    \cup {{PairString(ATOMUSD), PairString(ATOMEUR)}}

\* a provider's answer with the given keys, each value tagged with its origin
CallerData(name, what, keys) ==
    [key \in keys |-> [from |-> name, what |-> what, pair |-> key]]

CallerArgsInputs ==
    {[c \in ProviderNames |-> [prices  |-> CallerData(c, "ticker", kp[c]),
                               candles |-> CallerData(c, "candles", kc[c]),
                               pairs   |-> pl[c]]] :
        kp \in [ProviderNames -> CallerKeySets],
        kc \in [ProviderNames -> CallerKeySets],
        pl \in [ProviderNames -> CallerPairLists]}

AggInit(args) ==
    /\ aggregator = NewProviderAggregator
    /\ mtx = "free"
    /\ callerArgs = args
    /\ callerPc = [c \in ProviderNames |-> IF Len(args[c].pairs) = 0 THEN "done" ELSE "call"]
    /\ callerIdx = [c \in ProviderNames |-> 1]
    /\ callerRet = [c \in ProviderNames |-> <<>>]

\* no caller has anything to call
AggIdle ==
    AggInit([c \in ProviderNames |->
                [prices |-> EmptyMap, candles |-> EmptyMap, pairs |-> <<>>]])

\* faulty variant: the caller enters without waiting for p.mtx
CallerEntersUnlocked(c) ==
    /\ callerPc[c] = "call"
    /\ mtx' = c
    /\ callerPc' = [callerPc EXCEPT ![c] = "locked"]
    /\ UNCHANGED <<aggregator, callerArgs, callerIdx, callerRet, propVars, extVars, verVars>>

\* line 45: p.mtx.Lock()
CallerLock(c) ==
    /\ callerPc[c] = "call"
    /\ mtx = "free"
    /\ mtx' = c
    /\ callerPc' = [callerPc EXCEPT ![c] = "locked"]
    /\ UNCHANGED <<aggregator, callerArgs, callerIdx, callerRet, propVars, extVars, verVars>>

\* the map with a sub-map under the name, made if there was none
WithSubMap(m, name) == IF name \in DOMAIN m THEN m ELSE Put(m, name, EmptyMap)

\* lines 49-51: the provider's sub-map of prices
CallerMakePrices(c) ==
    /\ callerPc[c] = "locked"
    /\ aggregator' = [aggregator EXCEPT
                         !.providerPrices = WithSubMap(aggregator.providerPrices, c)]
    /\ callerPc' = [callerPc EXCEPT ![c] = "candles"]
    /\ UNCHANGED <<mtx, callerArgs, callerIdx, callerRet, propVars, extVars, verVars>>

\* lines 52-54: the provider's sub-map of candles
CallerMakeCandles(c) ==
    /\ callerPc[c] = "candles"
    /\ aggregator' = [aggregator EXCEPT
                         !.providerCandles = WithSubMap(aggregator.providerCandles, c)]
    /\ callerPc' = [callerPc EXCEPT ![c] = "store"]
    /\ UNCHANGED <<mtx, callerArgs, callerIdx, callerRet, propVars, extVars, verVars>>

\* lines 56-69 and the deferred Unlock: the call's result is that of the
\* whole body, whose sub-maps are there by now
CallerStore(c) ==
    /\ callerPc[c] = "store"
    /\ LET a == callerArgs[c]
           r == SetProviderTickerPricesAndCandles(aggregator, c, a.prices, a.candles,
                                                  a.pairs[callerIdx[c]])
       IN  /\ aggregator' = r.agg
           /\ callerRet' = [callerRet EXCEPT ![c] = Append(@, r.ok)]
           /\ callerPc' = [callerPc EXCEPT ![c] = IF callerIdx[c] = Len(a.pairs)
                                                  THEN "done" ELSE "call"]
    /\ callerIdx' = [callerIdx EXCEPT ![c] = @ + 1]
    /\ mtx' = "free"
    /\ UNCHANGED <<callerArgs, propVars, extVars, verVars>>

AggregatorNext ==
    \/ \E c \in ProviderNames : CallerLock(c)
    \/ \E c \in ProviderNames : CallerMakePrices(c)
    \/ \E c \in ProviderNames : CallerMakeCandles(c)
    \/ \E c \in ProviderNames : CallerStore(c)

(***************************************************************************)
(* Inputs of the proposal handler.                                         *)
(***************************************************************************)
\* 9.80, 10.00, 10.20
PriceInputs == {(98 * OneDec) \div 10, 10 * OneDec, (102 * OneDec) \div 10}

\* the price maps of the attestations: ATOM absent or priced, alone or with
\* a base outside the supported set
AttestationPrices ==
    {NilMap}
    \cup {[b \in {"ATOM"} |-> p] : p \in PriceInputs}
    \cup {[b \in {"ATOM", "OSMO"} |-> IF b = "ATOM" THEN 10 * OneDec ELSE 5 * OneDec]}

VoteExtensionInputs ==
    {EmptyBytes, GarbageBytes}
    \cup {MarshalVoteExt([Height |-> 1, Prices |-> m]) : m \in AttestationPrices}

PowerInputs == {0, 10}

VoteInputs == [VoteExtension : VoteExtensionInputs, Power : PowerInputs]

RECURSIVE SeqsUpTo(_, _)
SeqsUpTo(S, n) ==
    IF n = 0 THEN {<<>>}
    ELSE LET shorter == SeqsUpTo(S, n - 1)
         IN  shorter \cup {Append(s, x) : s \in {t \in shorter : Len(t) = n - 1}, x \in S}

CommitInfoInputs == {[Votes |-> vs] : vs \in SeqsUpTo(VoteInputs, MaxVotes)}

\* what a proposer may claim: nothing, 10.00 or 11.00 for ATOM
ClaimedInputs ==
    {NilMap} \cup {[b \in {"ATOM"} |-> p] : p \in {10 * OneDec, 11 * OneDec}}

(***************************************************************************)
(* Proposal specification: the host calls PrepareProposal on a commit-info *)
(* and ProcessProposal on the list it returned, or ProcessProposal on a    *)
(* list a proposer built by itself.                                        *)
(***************************************************************************)
ProposalIdle ==
    /\ propPhase = "init"
    /\ commitInfo = NoCommitInfo
    /\ proposalTxs = <<>>
    /\ fromPrepare = FALSE
    /\ prepareOutcome = "none"
    /\ processStatus = "none"
    /\ stakeWeightedPrices = NotComputed
    /\ fauxOracleKeeper = [prices |-> NilMap]
    /\ setOraclePricesArgs = <<>>

HostPrepareProposal ==
    /\ propPhase = "init"
    /\ \E ci \in CommitInfoInputs :
        LET resp == PrepareProposal(ci)
        IN  /\ propPhase' = "prepared"
            /\ commitInfo' = ci
            /\ proposalTxs' = resp.Txs
            /\ fromPrepare' = (resp.outcome = "returned")
            /\ prepareOutcome' = resp.outcome
            /\ processStatus' = "none"
            /\ stakeWeightedPrices' = resp.computed
            /\ setOraclePricesArgs' = <<>>
            /\ UNCHANGED <<fauxOracleKeeper, extVars, verVars, aggVars>>

Process(txs) ==
    LET resp == ProcessProposal(txs, fauxOracleKeeper)
    IN  /\ propPhase' = "processed"
        /\ proposalTxs' = txs
        /\ processStatus' = resp.status
        /\ stakeWeightedPrices' = resp.computed
        /\ fauxOracleKeeper' = resp.keeper
        /\ setOraclePricesArgs' = resp.setArgs

\* ProcessProposal on the list PrepareProposal returned
HostProcessPrepared ==
    /\ propPhase = "prepared"
    /\ prepareOutcome = "returned"
    /\ Process(proposalTxs)
    /\ UNCHANGED <<commitInfo, fromPrepare, prepareOutcome, extVars, verVars, aggVars>>

\* ProcessProposal on a list of the proposer's own making
HostProcessProposal ==
    /\ propPhase = "init"
    /\ \E first \in {GarbageTx}
                 \cup {MarshalInjectedTx(claimed, ci) :
                          claimed \in ClaimedInputs, ci \in CommitInfoInputs} :
        /\ Process(<<first>>)
        /\ commitInfo' = NoCommitInfo
        /\ fromPrepare' = FALSE
        /\ prepareOutcome' = "none"
        /\ UNCHANGED <<extVars, verVars, aggVars>>

ProposalNext == HostPrepareProposal \/ HostProcessPrepared \/ HostProcessProposal

\* the proposal handler of an application whose vote-extension handler is idle
ProposalInit == ProposalIdle /\ VoteExtInit(EmptyMap) /\ VerifyIdle /\ AggIdle

ProposalSpec == ProposalInit /\ [][ProposalNext]_vars

(***************************************************************************)
(* Vote-extension specification: one ExtendVote call of a handler with any *)
(* of the provider configurations; the proposal handler stays idle.        *)
(***************************************************************************)
ExtendSpecInit == ProposalIdle /\ ExtendInit /\ VerifyIdle /\ AggIdle

ExtendSpec == ExtendSpecInit /\ [][ExtendNext]_vars

(***************************************************************************)
(* Verification specification: a handler with one provider, called for     *)
(* ExtendVote up to MaxSyncs times, and asked at any time to verify a vote  *)
(* extension a peer sent.                                                  *)
(***************************************************************************)
VerifyProviderPairsInputs == {pp \in ProviderPairsInputs : DOMAIN pp \subseteq {"Binance"}}

VerifyInit ==
    /\ ProposalIdle
    /\ \E pp \in VerifyProviderPairsInputs : VoteExtInit(pp)
    /\ VerifyIdle
    /\ AggIdle

VerifyNext == ExtendNext \/ ExtendVoteReturn \/ HostVerifyVoteExtension

VerifySpec == VerifyInit /\ [][VerifyNext]_vars

(***************************************************************************)
(* Fair vote-extension specification: one ExtendVote call of a handler     *)
(* with one provider, under the scheduling Go gives: a goroutine that can  *)
(* run does run, a provider call returns, a send goes through once the     *)
(* buffer has room, and a select with a timer takes one of its cases.      *)
(***************************************************************************)
SelectStep(p) == SelectDone(p) \/ SelectErr(p) \/ SelectTimeout(p)

ExtendFairness ==
    /\ WF_vars(ExtendVoteBegin)
    /\ WF_vars(LoopEnd)
    /\ WF_vars(ExtendVoteFinish)
    /\ \A p \in ProviderNames :
        /\ WF_vars(LaunchProvider(p))
        /\ WF_vars(TaskStart(p))
        /\ WF_vars(FetchTicker(p))
        /\ WF_vars(FetchSendErr(p))
        /\ WF_vars(FetchCandles(p))
        /\ WF_vars(FetchSendDone(p))
        /\ WF_vars(SelectStep(p))
        /\ WF_vars(MergePair(p))

ExtendFairSpec == VerifyInit /\ [][ExtendNext]_vars /\ ExtendFairness

(***************************************************************************)
(* Aggregator specification: the callers run against one fresh aggregator. *)
(***************************************************************************)
AggregatorInit ==
    /\ ProposalIdle
    /\ VoteExtInit(EmptyMap)
    /\ VerifyIdle
    /\ \E args \in CallerArgsInputs : AggInit(args)

AggregatorSpec == AggregatorInit /\ [][AggregatorNext]_vars

(***************************************************************************)
(* Properties of the proposal handler.                                     *)
(***************************************************************************)
\* the first entry of the processed list, decoded
DecodedFirstTx == UnmarshalInjectedTx(proposalTxs[1])

ProcessedNonEmpty == propPhase = "processed" /\ Len(proposalTxs) > 0

\* C1: a processed non-empty proposal whose first entry decodes and whose
\* claimed price mapping differs from the recomputed one is rejected.
C1_MismatchIsRejected ==
    (/\ ProcessedNonEmpty
     /\ ~DecodedFirstTx.err
     /\ stakeWeightedPrices.outcome = "ok"
     /\ DecodedFirstTx.StakeWeightedPrices # stakeWeightedPrices.prices)
    => processStatus = "REJECT"

\* C2: ProcessProposal on the list PrepareProposal returned for a commit-info
\* accepts, and what it recomputes from the embedded commit-info is the
\* aggregate the proposer packaged and the aggregate of the commit-info.
C2_PreparedIsAccepted ==
    (propPhase = "processed" /\ fromPrepare)
    => /\ processStatus = "ACCEPT"
       /\ Len(proposalTxs) > 0
          => /\ ~DecodedFirstTx.err
             /\ stakeWeightedPrices.outcome = "ok"
             /\ stakeWeightedPrices.prices = DecodedFirstTx.StakeWeightedPrices
             /\ DecodedFirstTx.ExtendedCommitInfo = commitInfo

\* three votes of power 10 pricing ATOM 10.00, 10.20 and 9.80
ThreeEqualVotes ==
    [Votes |-> << [VoteExtension |-> MarshalVoteExt([Height |-> 1,
                       Prices |-> [b \in {"ATOM"} |-> 10 * OneDec]]), Power |-> 10],
                  [VoteExtension |-> MarshalVoteExt([Height |-> 1,
                       Prices |-> [b \in {"ATOM"} |-> (102 * OneDec) \div 10]]), Power |-> 10],
                  [VoteExtension |-> MarshalVoteExt([Height |-> 1,
                       Prices |-> [b \in {"ATOM"} |-> (98 * OneDec) \div 10]]), Power |-> 10] >>]

C2_Witness ==
    /\ propPhase = "processed"
    /\ fromPrepare
    /\ commitInfo = ThreeEqualVotes
    /\ processStatus = "ACCEPT"
    /\ stakeWeightedPrices.prices = [b \in {"ATOM"} |-> 10 * OneDec]

\* sum of price * power over the votes, from vote i on, whose attestation has the base
RECURSIVE WeightedSum(_, _, _)
WeightedSum(votes, i, base) ==
    IF i > Len(votes) THEN 0
    ELSE LET prices == UnmarshalVoteExt(votes[i].VoteExtension).voteExt.Prices
         IN  (IF base \in DOMAIN prices THEN prices[base] * votes[i].Power ELSE 0)
             + WeightedSum(votes, i + 1, base)

\* sum of the power of all votes from vote i on
RECURSIVE TotalPower(_, _)
TotalPower(votes, i) ==
    IF i > Len(votes) THEN 0 ELSE votes[i].Power + TotalPower(votes, i + 1)

AllDecode(votes) == \A i \in DOMAIN votes : ~UnmarshalVoteExt(votes[i].VoteExtension).err

\* C3: for a commit-info whose attestations all decode and whose total power
\* is positive, the aggregate has exactly the supported bases as keys and each
\* value is the base's weighted sum divided by the power of all votes (the
\* quotient in Dec precision).
C3_StakeWeightedMean ==
    (/\ propPhase = "prepared"
     /\ AllDecode(commitInfo.Votes)
     /\ TotalPower(commitInfo.Votes, 1) > 0)
    => /\ stakeWeightedPrices.outcome = "ok"
       /\ DOMAIN stakeWeightedPrices.prices = SupportedBases
       /\ \A b \in DOMAIN stakeWeightedPrices.prices :
            LET q == stakeWeightedPrices.prices[b]
                t == TotalPower(commitInfo.Votes, 1)
                s == WeightedSum(commitInfo.Votes, 1, b)
            IN  q * t <= s /\ s < (q + 1) * t

\* a vote without ATOM and a vote with an unsupported base took part
C3_Witness ==
    /\ propPhase = "prepared"
    /\ AllDecode(commitInfo.Votes)
    /\ TotalPower(commitInfo.Votes, 1) > 0
    /\ Len(commitInfo.Votes) = 3
    /\ \E i \in DOMAIN commitInfo.Votes :
         /\ commitInfo.Votes[i].Power > 0
         /\ DOMAIN UnmarshalVoteExt(commitInfo.Votes[i].VoteExtension).voteExt.Prices = {}
    /\ \E i \in DOMAIN commitInfo.Votes :
         /\ commitInfo.Votes[i].Power > 0
         /\ DOMAIN UnmarshalVoteExt(commitInfo.Votes[i].VoteExtension).voteExt.Prices
                = {"ATOM", "OSMO"}
    /\ \E i \in DOMAIN commitInfo.Votes :
         /\ commitInfo.Votes[i].Power > 0
         /\ UnmarshalVoteExt(commitInfo.Votes[i].VoteExtension).voteExt.Prices
                = [b \in {"ATOM"} |-> (98 * OneDec) \div 10]
    /\ stakeWeightedPrices.outcome = "ok"
    /\ stakeWeightedPrices.prices["ATOM"] > 0

\* C4: a commit-info of zero total voting power makes the aggregation end in
\* an error: PrepareProposal returns, with no record injected, and no
\* division by zero takes place.
C4_ZeroPowerFailsClosed ==
    (propPhase = "prepared" /\ TotalPower(commitInfo.Votes, 1) = 0)
    => /\ prepareOutcome = "returned"
       /\ stakeWeightedPrices.outcome = "err"
       /\ proposalTxs = <<>>

\* C5: after ProcessProposal accepted a non-empty proposal the keeper holds
\* the mapping that was passed to SetOraclePrices.
C5_AcceptedPricesAreStored ==
    (ProcessedNonEmpty /\ processStatus = "ACCEPT")
    => /\ Len(setOraclePricesArgs) = 1
       /\ fauxOracleKeeper.prices = setOraclePricesArgs[1]

\* C6: a ProcessProposal call that rejects, or that accepts an empty
\* proposal, leaves the keeper as it was and makes no SetOraclePrices call.
C6_RejectLeavesStore ==
    [][(/\ propPhase' = "processed"
        /\ processStatus' = "REJECT" \/ Len(proposalTxs') = 0)
       => /\ fauxOracleKeeper' = fauxOracleKeeper
          /\ setOraclePricesArgs' = <<>>]_vars

\* a rejection after the first entry decoded (the recomputation failed)
C6_Witness ==
    /\ ProcessedNonEmpty
    /\ processStatus = "REJECT"
    /\ ~DecodedFirstTx.err
    /\ stakeWeightedPrices.outcome = "err"
    /\ setOraclePricesArgs = <<>>

(***************************************************************************)
(* Properties of ExtendVote.                                               *)
(***************************************************************************)
\* the union of the bases of all providers' configured pairs
RequiredBases ==
    UNION {{providerPairs[p][i].Base : i \in DOMAIN providerPairs[p]} :
           p \in DOMAIN providerPairs}

\* the payload ExtendVote returned, decoded
ReturnedVoteExt == UnmarshalVoteExt(extendResp.bz)

\* C7: a payload ExtendVote returns for height H decodes to an attestation of
\* height H that prices every required base; when a required base has no
\* computed price, no payload is returned.
C7_ExtendVoteFailsClosed ==
    evPc = "done"
    => /\ extendResp.returned
       /\ extendResp.payload
          => /\ ~ReturnedVoteExt.err
             /\ ReturnedVoteExt.voteExt.Height = reqHeight
             /\ RequiredBases \subseteq DOMAIN ReturnedVoteExt.voteExt.Prices
             /\ reqHeight \in DOMAIN computedPrices
       /\ (\E b \in RequiredBases : b \notin DOMAIN computeOraclePrices(providerAgg).prices)
          => ~extendResp.payload

\* a payload for height 101 from a handler with providers configured
C7_Witness ==
    /\ evPc = "done"
    /\ extendResp.payload
    /\ reqHeight = 101
    /\ DOMAIN providerPairs = ProviderNames
    /\ \A p \in ProviderNames : taskResult[p] = "ok"

\* the task of p took doneCh and neither fetch of p reported an error
AnsweredInTime(p) ==
    /\ fetchPc[p] = "exit"
    /\ errCh[p] = 0
    /\ ~fetchErr[p]
    /\ taskResult[p] \in {"ok", "nodata"}

\* some provider's merged ticker prices or candles have the base
Covered(b) ==
    \/ \E n \in DOMAIN providerAgg.providerPrices : b \in DOMAIN providerAgg.providerPrices[n]
    \/ \E n \in DOMAIN providerAgg.providerCandles : b \in DOMAIN providerAgg.providerCandles[n]

\* C8: when every configured provider answered both fetches without error
\* before the timeout and the answers cover every required base, ExtendVote
\* returns an attestation whose prices have exactly the required bases as keys.
C8_AllAnsweredGivesRequiredBases ==
    (/\ evPc = "done"
     /\ \A p \in DOMAIN providerPairs : AnsweredInTime(p) /\ taskResult[p] = "ok"
     /\ \A b \in RequiredBases : Covered(b))
    => /\ extendResp.payload
       /\ ~ReturnedVoteExt.err
       /\ DOMAIN ReturnedVoteExt.voteExt.Prices = RequiredBases

\* C9: when every provider's task ended by timeout and some base is required,
\* ExtendVote returns no payload.
C9_AllTimeoutsNoPayload ==
    (/\ evPc = "done"
     /\ RequiredBases # {}
     /\ \A p \in DOMAIN providerPairs : taskResult[p] = "timeout")
    => /\ extendResp.returned
       /\ ~extendResp.payload
       /\ reqHeight \notin DOMAIN computedPrices

\* both providers timed out, one before and one after its fetch goroutine ended
C9_Witness ==
    /\ evPc = "done"
    /\ DOMAIN providerPairs = ProviderNames
    /\ RequiredBases = {"ATOM", "OSMO"}
    /\ \A p \in ProviderNames : taskResult[p] = "timeout"
    /\ \E p \in ProviderNames : fetchPc[p] = "exit"
    /\ \E p \in ProviderNames : fetchPc[p] # "exit"
    /\ ~extendResp.payload

\* the answers of q have data for every pair configured for q
HasDataForOwnPairs(q) ==
    \A i \in DOMAIN providerPairs[q] :
        /\ PairString(providerPairs[q][i]) \in DOMAIN fetchedPrices[q]
        /\ PairString(providerPairs[q][i]) \in DOMAIN fetchedCandles[q]

\* the aggregator holds, under q's name, q's answer for every pair configured for q
HasAllResults(q) ==
    \A i \in DOMAIN providerPairs[q] :
        LET pair == providerPairs[q][i]
        IN  /\ q \in DOMAIN providerAgg.providerPrices
            /\ pair.Base \in DOMAIN providerAgg.providerPrices[q]
            /\ providerAgg.providerPrices[q][pair.Base] = fetchedPrices[q][PairString(pair)]
            /\ q \in DOMAIN providerAgg.providerCandles
            /\ pair.Base \in DOMAIN providerAgg.providerCandles[q]
            /\ providerAgg.providerCandles[q][pair.Base] = fetchedCandles[q][PairString(pair)]

TaskFailed(p) == taskResult[p] \in {"error", "timeout", "nodata"}

\* C10: when prices are computed, every provider whose two fetches succeeded
\* before the timeout with data for all of its pairs has all of its results
\* in the aggregator, whichever other provider's task failed.
C10_FailureLeavesOthersMerged ==
    evPc = "done"
    => \A q \in DOMAIN providerPairs :
         (/\ AnsweredInTime(q)
          /\ HasDataForOwnPairs(q)
          /\ \E p \in DOMAIN providerPairs \ {q} : TaskFailed(p))
         => HasAllResults(q)

(***************************************************************************)
(* Properties of the ProviderAggregator under concurrent callers.          *)
(***************************************************************************)
AllCallersDone == \A c \in ProviderNames : callerPc[c] = "done"

CallerBases ==
    UNION {{pl[i].Base : i \in DOMAIN pl} : pl \in CallerPairLists}

\* the calls of c, by position, whose pair has the base and whose key is in data
Hits(c, data, base) ==
    {i \in DOMAIN callerArgs[c].pairs :
        /\ callerArgs[c].pairs[i].Base = base
        /\ PairString(callerArgs[c].pairs[i]) \in DOMAIN data}

LastOf(hits) == CHOOSE i \in hits : \A j \in hits : j <= i

HasEntry(store, c, base) == c \in DOMAIN store /\ base \in DOMAIN store[c]

\* store has, for every caller and base, an entry exactly when a call of the
\* caller had the data, and the entry is the caller's value (of its last such call)
ExactlyTheData(store, field) ==
    /\ DOMAIN store \subseteq ProviderNames
    /\ \A c \in DOMAIN store : DOMAIN store[c] \subseteq CallerBases
    /\ \A c \in ProviderNames, base \in CallerBases :
         LET data == callerArgs[c][field]
             hits == Hits(c, data, base)
         IN  IF hits = {}
             THEN ~HasEntry(store, c, base)
             ELSE /\ HasEntry(store, c, base)
                  /\ store[c][base] = data[PairString(callerArgs[c].pairs[LastOf(hits)])]
                  /\ store[c][base].from = c

\* C11: when the concurrent callers, one per provider name, have all
\* returned, the aggregator's maps hold for every (provider, base) exactly
\* one entry iff the key of a pair with that base was in that caller's prices
\* (candles) input, with that caller's value, whatever the interleaving.
C11_ConcurrentCallersMerge ==
    AllCallersDone
    => /\ ExactlyTheData(aggregator.providerPrices, "prices")
       /\ ExactlyTheData(aggregator.providerCandles, "candles")

\* both callers made two calls; one had data for one of its two bases only,
\* the other stored the same base twice
C11_Witness ==
    /\ AllCallersDone
    /\ callerArgs["Binance"].pairs = <<ATOMUSD, OSMOUSD>>
    /\ DOMAIN callerArgs["Binance"].prices = {PairString(ATOMUSD)}
    /\ DOMAIN callerArgs["Binance"].candles = {}
    /\ callerArgs["Kraken"].pairs = <<ATOMUSD, ATOMEUR>>
    /\ DOMAIN callerArgs["Kraken"].prices = {PairString(ATOMUSD), PairString(ATOMEUR)}
    /\ DOMAIN aggregator.providerPrices["Binance"] = {"ATOM"}
    /\ aggregator.providerPrices["Kraken"]["ATOM"].pair = PairString(ATOMEUR)
    /\ DOMAIN aggregator.providerCandles["Binance"] = {}

\* the step is the return of a call of c
CallReturns(c) == callerPc[c] = "store" /\ callerPc'[c] # "store"

\* the entry of (c, base) is the same before and after the step
SameEntry(before, after, c, base) ==
    /\ HasEntry(before, c, base) <=> HasEntry(after, c, base)
    /\ HasEntry(before, c, base) => before[c][base] = after[c][base]

\* C12: a call returns true iff it stored at least one of the two results:
\* the price is stored under providerName -> pair.Base exactly when the key
\* Base+Quote is in the prices input, the candles likewise, the return value
\* is the disjunction, and no other entry changes.
C12_ReturnsTrueIffStored ==
    [][\A c \in ProviderNames :
         CallReturns(c)
         => LET a    == callerArgs[c]
                pair == a.pairs[callerIdx[c]]
                key  == pair.Base \o pair.Quote
                pricesOk  == key \in DOMAIN a.prices
                candlesOk == key \in DOMAIN a.candles
            IN  /\ callerRet'[c] = Append(callerRet[c], pricesOk \/ candlesOk)
                /\ IF pricesOk
                   THEN /\ HasEntry(aggregator'.providerPrices, c, pair.Base)
                        /\ aggregator'.providerPrices[c][pair.Base] = a.prices[key]
                   ELSE SameEntry(aggregator.providerPrices, aggregator'.providerPrices,
                                  c, pair.Base)
                /\ IF candlesOk
                   THEN /\ HasEntry(aggregator'.providerCandles, c, pair.Base)
                        /\ aggregator'.providerCandles[c][pair.Base] = a.candles[key]
                   ELSE SameEntry(aggregator.providerCandles, aggregator'.providerCandles,
                                  c, pair.Base)
                /\ \A d \in ProviderNames, base \in CallerBases :
                     (d # c \/ base # pair.Base)
                     => /\ SameEntry(aggregator.providerPrices, aggregator'.providerPrices,
                                     d, base)
                        /\ SameEntry(aggregator.providerCandles, aggregator'.providerCandles,
                                     d, base)]_vars

\* a call that stored only the candles and returned true, then a call that
\* found neither and returned false
C12_Witness ==
    /\ callerRet["Binance"] = <<TRUE, FALSE>>
    /\ callerArgs["Binance"].pairs = <<ATOMUSD, OSMOUSD>>
    /\ HasEntry(aggregator.providerCandles, "Binance", "ATOM")
    /\ ~HasEntry(aggregator.providerPrices, "Binance", "ATOM")
    /\ ~HasEntry(aggregator.providerPrices, "Binance", "OSMO")
    /\ ~HasEntry(aggregator.providerCandles, "Binance", "OSMO")

(***************************************************************************)
(* Properties of VerifyVoteExtension.                                      *)
(***************************************************************************)
\* the vote extension of the last verification request, decoded
VerifiedVoteExt == UnmarshalVoteExt(verifyReq.VoteExtension)

VerifyRejects == verifyResp.err /\ verifyResp.status # "ACCEPT"

\* C13: a well-formed attestation whose declared height differs from the
\* height of the verification request is rejected (an error, no ACCEPT),
\* whatever its prices.
C13_HeightMismatchIsRejected ==
    (/\ verifyReq.called
     /\ ~VerifiedVoteExt.err
     /\ VerifiedVoteExt.voteExt.Height # verifyReq.Height)
    => VerifyRejects

\* an attestation of height 101 with a supported price, verified for height 100
C13_Witness ==
    /\ verifyReq.called
    /\ verifyReq.Height = 100
    /\ ~VerifiedVoteExt.err
    /\ VerifiedVoteExt.voteExt.Height = 101
    /\ VerifiedVoteExt.voteExt.Prices = [b \in {"ATOM"} |-> 10 * OneDec]
    /\ VerifyRejects

\* C14: an attestation that decodes, matches the request's height and prices
\* a base outside the supported set is rejected.
C14_UnsupportedBaseIsRejected ==
    (/\ verifyReq.called
     /\ ~VerifiedVoteExt.err
     /\ VerifiedVoteExt.voteExt.Height = verifyReq.Height
     /\ ~(DOMAIN VerifiedVoteExt.voteExt.Prices \subseteq SupportedBases))
    => VerifyRejects

\* handler copies in any state that hold the reference prices ref
HandlerCopies(ref) ==
    [currentBlock : {0} \cup HeightInputs,
     lastPriceSyncTS : 0..MaxSyncs,
     computedPrices : {ref}]

\* C15: the verdict is a function of the request's height, the attestation
\* bytes and the cached reference prices: every handler copy holding the same
\* reference prices, in whatever state, gives the verdict this handler gave
\* after whatever calls ran before; and a verification call leaves the
\* handler's fields and the oracle keeper unchanged.
C15_VerifyIsPure ==
    /\ [](verifyReq.called
          => \A h2 \in HandlerCopies(verifyReq.ref) :
               LET r == VerifyVoteExtension(h2,
                            [Height |-> verifyReq.Height,
                             VoteExtension |-> verifyReq.VoteExtension])
               IN  /\ r.status = verifyResp.status
                   /\ r.err = verifyResp.err)
    /\ [][(verifyReq' # verifyReq \/ verifyResp' # verifyResp)
          => UNCHANGED <<currentBlock, lastPriceSyncTS, computedPrices, providerPairs,
                         fauxOracleKeeper, setOraclePricesArgs>>]_vars

\* a verification for height 100 accepted by a handler that ExtendVote had by
\* then moved to height 101, with both heights cached
C15_Witness ==
    /\ verifyReq.called
    /\ verifyReq.Height = 100
    /\ verifyResp.status = "ACCEPT"
    /\ currentBlock = 101
    /\ lastPriceSyncTS = 2
    /\ verifyReq.ref = computedPrices
    /\ DOMAIN computedPrices = {100, 101}

(***************************************************************************)
(* Further properties of the proposal handler.                             *)
(***************************************************************************)
\* the orders of n votes
Orders(n) == {f \in [1..n -> 1..n] : \A i, j \in 1..n : i # j => f[i] # f[j]}

\* the vote list in the order f
Reordered(votes, f) == [i \in 1..Len(votes) |-> votes[f[i]]]

\* C16: for a commit-info of positive total power, the aggregation of every
\* reordering of its vote list gives what the aggregation of the list gave
\* (the same mapping, or the same failure).
C16_OrderIndependent ==
    (propPhase = "prepared" /\ TotalPower(commitInfo.Votes, 1) > 0)
    => \A f \in Orders(Len(commitInfo.Votes)) :
         computeStakeWeightedOraclePrices([Votes |-> Reordered(commitInfo.Votes, f)])
             = stakeWeightedPrices

\* three votes of equal power, two of different prices and one without a
\* price, whose mean is cut off by the division
C16_Witness ==
    /\ propPhase = "prepared"
    /\ Len(commitInfo.Votes) = 3
    /\ AllDecode(commitInfo.Votes)
    /\ commitInfo.Votes[1].Power = 10
    /\ commitInfo.Votes[2].Power = 10
    /\ commitInfo.Votes[3].Power = 10
    /\ UnmarshalVoteExt(commitInfo.Votes[1].VoteExtension).voteExt.Prices
           = [b \in {"ATOM"} |-> (98 * OneDec) \div 10]
    /\ UnmarshalVoteExt(commitInfo.Votes[2].VoteExtension).voteExt.Prices
           = [b \in {"ATOM"} |-> (102 * OneDec) \div 10]
    /\ DOMAIN UnmarshalVoteExt(commitInfo.Votes[3].VoteExtension).voteExt.Prices = {}
    /\ stakeWeightedPrices.outcome = "ok"
    /\ stakeWeightedPrices.prices["ATOM"] * 30 < 200 * OneDec

\* the embedded commit-info of the processed first entry
EmbeddedVotes == DecodedFirstTx.ExtendedCommitInfo.Votes

\* C17: every ProcessProposal call ends with ACCEPT or REJECT; a first entry
\* that does not decode, an embedded commit-info with an undecodable
\* attestation, and an embedded commit-info of zero total power end with REJECT.
C17_ProcessProposalIsTotal ==
    propPhase = "processed"
    => /\ processStatus \in {"ACCEPT", "REJECT"}
       /\ Len(proposalTxs) > 0
          => /\ DecodedFirstTx.err => processStatus = "REJECT"
             /\ (~DecodedFirstTx.err /\ ~AllDecode(EmbeddedVotes))
                => processStatus = "REJECT"
             /\ (~DecodedFirstTx.err /\ TotalPower(EmbeddedVotes, 1) = 0)
                => processStatus = "REJECT"

(***************************************************************************)
(* Further properties of ExtendVote.                                       *)
(***************************************************************************)
\* the aggregator has no price and no candle entry under the name
NoEntriesUnder(name) ==
    /\ name \in DOMAIN providerAgg.providerPrices
       => DOMAIN providerAgg.providerPrices[name] = {}
    /\ name \in DOMAIN providerAgg.providerCandles
       => DOMAIN providerAgg.providerCandles[name] = {}

\* C18: when prices are computed, the aggregator holds no price entry and no
\* candle entry under the name of a provider whose task settled as failed.
C18_FailedProviderContributesNothing ==
    evPc = "done"
    => \A p \in DOMAIN providerPairs : TaskFailed(p) => NoEntriesUnder(p)

AllTasksSettled == \A p \in DOMAIN providerPairs : taskPc[p] = "settled"

\* the aggregator holds no value that the fetch of provider p returned
NothingFetchedBy(p) ==
    /\ \A n \in DOMAIN providerAgg.providerPrices :
         \A b \in DOMAIN providerAgg.providerPrices[n] :
             providerAgg.providerPrices[n][b].from # p
    /\ \A n \in DOMAIN providerAgg.providerCandles :
         \A b \in DOMAIN providerAgg.providerCandles[n] :
             providerAgg.providerCandles[n][b].from # p

\* C19: computeOraclePrices runs only after every provider task has settled;
\* from then on no step writes the aggregator; a step of a fetch whose task
\* timed out writes nothing to it, and nothing it fetched is ever stored.
C19_AggregatorQuiescentWhenRead ==
    /\ [](evPc = "done" => AllTasksSettled)
    /\ [][(evPc = "done" \/ (evPc = "wait" /\ AllTasksSettled))
          => providerAgg' = providerAgg]_vars
    /\ [][\A p \in ProviderNames :
            (taskResult[p] = "timeout" /\ fetchPc'[p] # fetchPc[p])
            => providerAgg' = providerAgg]_vars
    /\ [](\A p \in ProviderNames : taskResult[p] = "timeout" => NothingFetchedBy(p))

\* prices were computed from an aggregator with a merged result while the
\* fetch of a provider whose task timed out has data and has sent on doneCh
C19_Witness ==
    /\ evPc = "done"
    /\ DOMAIN providerPairs = ProviderNames
    /\ taskResult["Kraken"] = "timeout"
    /\ fetchPc["Kraken"] = "exit"
    /\ doneCh["Kraken"] = 1
    /\ DOMAIN fetchedPrices["Kraken"] # {}
    /\ DOMAIN fetchedCandles["Kraken"] # {}
    /\ taskResult["Binance"] = "ok"
    /\ \E n \in DOMAIN providerAgg.providerPrices :
         /\ "ATOM" \in DOMAIN providerAgg.providerPrices[n]
         /\ providerAgg.providerPrices[n]["ATOM"].from = "Binance"

\* a fetch of p has reported an error: it is buffered in errCh or the select took it
ErrorReported(p) == errCh[p] = 1 \/ taskResult[p] = "error"

\* C20: when a fetch of a provider has reported an error and the select of
\* its task has decided otherwise than by the timeout, the task has settled
\* as failed with that error and nothing that provider fetched is merged.
C20_ReportedErrorDecides ==
    \A p \in DOMAIN providerPairs :
        (/\ ErrorReported(p)
         /\ taskPc[p] \in {"merge", "settled"}
         /\ taskResult[p] # "timeout")
        => /\ taskResult[p] = "error"
           /\ NothingFetchedBy(p)

(***************************************************************************)
(* Termination of the fetch goroutines.                                    *)
(***************************************************************************)
\* GetTickerPrices and GetCandlePrices of p's fetch goroutine have both returned
BothCallsReturned(p) == fetchPc[p] \in {"errsend2", "donesend", "exit"}

\* C21: once both provider calls of a fetch goroutine have returned, the
\* goroutine eventually terminates, however its task ended and however many
\* of the calls returned an error: it does not stay blocked on a send.
C21_FetchGoroutineTerminates ==
    \A p \in ProviderNames : BothCallsReturned(p) ~> (fetchPc[p] = "exit")

(***************************************************************************)
(* The data a provider task works on.                                      *)
(***************************************************************************)
\* the keys of the pairs configured for provider p
OwnKeys(p) == {PairString(providerPairs[p][i]) : i \in DOMAIN providerPairs[p]}

\* every value stored under the name was fetched from the provider of that name
StoredUnderOwnName(store) ==
    \A n \in DOMAIN store : \A b \in DOMAIN store[n] : store[n][b].from = n

\* C22: the task launched for provider p requests p's pairs, merges p's pairs
\* and stores under p's name: what its fetch returned has keys of p's pairs
\* only, its merge loop ranges over p's list, and every entry of the
\* aggregator lies under the name of the provider it was fetched from.
C22_TaskUsesOwnProviderData ==
    /\ \A p \in DOMAIN providerPairs :
         /\ DOMAIN fetchedPrices[p] \subseteq OwnKeys(p)
         /\ DOMAIN fetchedCandles[p] \subseteq OwnKeys(p)
         /\ taskResult[p] \in {"ok", "nodata"} => mergePairs[p] = providerPairs[p]
    /\ StoredUnderOwnName(providerAgg.providerPrices)
    /\ StoredUnderOwnName(providerAgg.providerCandles)

(***************************************************************************)
(* The aggregator's lock.                                                  *)
(***************************************************************************)
\* the caller is between Lock and Unlock
InCriticalSection(c) == callerPc[c] \in {"locked", "candles", "store"}

\* C23: at most one caller is inside the critical section at any time, and
\* in every state in which no caller holds the lock the prices map and the
\* candles map have the same provider names as keys, among them the name of
\* every caller of which a call has returned (its sub-maps exist, possibly
\* empty).
C23_AggregatorInvariant ==
    /\ Cardinality({c \in ProviderNames : InCriticalSection(c)}) <= 1
    /\ \A c \in ProviderNames : InCriticalSection(c) => mtx = c
    /\ mtx = "free"
       => /\ DOMAIN aggregator.providerPrices = DOMAIN aggregator.providerCandles
          /\ \A c \in ProviderNames :
               Len(callerRet[c]) > 0
               => /\ c \in DOMAIN aggregator.providerPrices
                  /\ c \in DOMAIN aggregator.providerCandles

\* the lock is free between two calls of Kraken, which has stored a price,
\* after the one call of Binance found no data and left two empty sub-maps
C23_Witness ==
    /\ mtx = "free"
    /\ callerPc["Binance"] = "done"
    /\ callerRet["Binance"] = <<FALSE>>
    /\ DOMAIN aggregator.providerPrices = ProviderNames
    /\ DOMAIN aggregator.providerPrices["Binance"] = {}
    /\ DOMAIN aggregator.providerCandles["Binance"] = {}
    /\ callerPc["Kraken"] = "call"
    /\ callerRet["Kraken"] = <<TRUE>>
    /\ DOMAIN aggregator.providerPrices["Kraken"] = {"ATOM"}
    /\ DOMAIN aggregator.providerCandles["Kraken"] = {}

(***************************************************************************)
(* Decode failures in the aggregation, and what ProcessProposal persists.  *)
(***************************************************************************)
\* C24: when a vote of the commit-info carries a payload that does not
\* decode (the zero-length payload included), PrepareProposal returns a list
\* with no entries: the aggregation failed, no record was built from the
\* other votes.
C24_UndecodableVoteFailsProposal ==
    (propPhase = "prepared" /\ ~AllDecode(commitInfo.Votes))
    => /\ prepareOutcome = "returned"
       /\ stakeWeightedPrices.outcome = "err"
       /\ proposalTxs = <<>>

\* two votes of power 10 that price ATOM, then a vote of power 10 with the
\* zero-length payload
C24_Witness ==
    /\ propPhase = "prepared"
    /\ Len(commitInfo.Votes) = 3
    /\ \A i \in 1..2 :
         /\ commitInfo.Votes[i].Power = 10
         /\ ~UnmarshalVoteExt(commitInfo.Votes[i].VoteExtension).err
         /\ "ATOM" \in DOMAIN UnmarshalVoteExt(commitInfo.Votes[i].VoteExtension).voteExt.Prices
    /\ commitInfo.Votes[3] = [VoteExtension |-> EmptyBytes, Power |-> 10]
    /\ proposalTxs = <<>>

\* C25: for every accepted non-empty proposal the one mapping passed to
\* SetOraclePrices is the aggregate of the embedded commit-info (the supported
\* bases as keys), whatever mapping the record claims.
C25_PersistsRecomputedPrices ==
    (ProcessedNonEmpty /\ processStatus = "ACCEPT")
    => /\ computeStakeWeightedOraclePrices(DecodedFirstTx.ExtendedCommitInfo).outcome = "ok"
       /\ setOraclePricesArgs
              = <<computeStakeWeightedOraclePrices(DecodedFirstTx.ExtendedCommitInfo).prices>>
       /\ DOMAIN setOraclePricesArgs[1] = SupportedBases

\* an accepted record claiming 11.00 whose commit-info gives 10.00, which is
\* what was passed on
C25_Witness ==
    /\ ProcessedNonEmpty
    /\ processStatus = "ACCEPT"
    /\ DecodedFirstTx.StakeWeightedPrices = [b \in {"ATOM"} |-> 11 * OneDec]
    /\ setOraclePricesArgs = << [b \in {"ATOM"} |-> 10 * OneDec] >>

====
